---- MODULE Spec2Model ----
(***************************************************************************)
(* Model of the exoplanet classification backend (FastAPI implementation   *)
(* guide, src/unnamed/part_010) and of the consumers of its responses in   *)
(* the React front end.                                                    *)
(*                                                                         *)
(* Probabilities and thresholds are percentages: 0.5 is 50, 0.7 is 70.     *)
(* An optional value (a form field that may be omitted, a CSV cell that    *)
(* may be NaN) is a set: {} when absent, {v} when present.                 *)
(***************************************************************************)
EXTENDS Integers, Sequences, FiniteSets, TLC

VARIABLES
    disk,        \* which pickle files exist under settings.MODELS_DIR
    _instance,   \* ModelRegistry._instance is not None
    _models,     \* keys of ModelRegistry._models
    _scalers,    \* keys of ModelRegistry._scalers
    _metadata,   \* keys of ModelRegistry._metadata
    rows,        \* data rows of the CSV file the client is about to upload
    request,     \* the request being answered
    response,    \* the answer the caller receives
    probe,       \* history: the first answer given to ProbeRequest, if any
    inflight,    \* the requests the server is handling at the same time
    activeTab,       \* App: 'upload' | 'visualize' | 'results'
    predictionData,  \* App: null ({}), or the response of the call that completed
    isLoading,       \* App: passed to FileUpload with setIsLoading
    apiConnected,    \* App: result of the last health check
    file,            \* FileUpload: the selected file, null ({}) when none
    error,           \* FileUpload: the message shown, null ({}) when none
    uploadProgress,  \* FileUpload: 0..100
    calls,           \* the handlePredict calls that got as far as the request
    datasetsCall,    \* DatasetExplorer: the getDatasets call made on mount
    datasets,        \* DatasetExplorer: names of the datasets loaded on mount
    selectedDataset, \* DatasetExplorer: '' when none is selected
    sampleData,      \* DatasetExplorer: the data last stored by setSampleData
    loading,         \* DatasetExplorer
    explorerError,   \* DatasetExplorer: its `error` state, null ({}) when none
    sampleLimit,     \* DatasetExplorer: the Sample Size select
    sampleRequests,  \* the loadSampleData calls and their requests
    appPhase,        \* App: "rendered" | "mounted" (effect has run) | "unmounted"
    pollTimer,       \* App: the 30 s interval of the health effect is active
    healthChecks     \* the checkApiHealth calls and their requests

serverVars == <<disk, _instance, _models, _scalers, _metadata, rows, request, response,
                probe, inflight>>
uiVars == <<activeTab, predictionData, isLoading, apiConnected, file, error,
            uploadProgress, calls>>
explorerVars == <<datasetsCall, datasets, selectedDataset, sampleData, loading, explorerError,
                  sampleLimit, sampleRequests>>
healthVars == <<appPhase, pollTimer, healthChecks>>
vars == <<serverVars, uiVars, explorerVars, healthVars>>

-----------------------------------------------------------------------------
(* Bounds of the model                                                     *)

MaxRows == 3
MaxProbeRows == 2
MaxInFlight == 2
MaxCalls == 2
MaxSampleRequests == 3
MaxHealthChecks == 3

(* Program constants                                                       *)

DEFAULT_THRESHOLD == 50
THRESHOLD_GE == 0
THRESHOLD_LE == 100
HIGH_CONFIDENCE_CUT == 70
HIGH_CONF_CARD_PERCENT == 80

\* A default that names a model the server does not ship.
DEFAULT_SAMPLE_LIMIT == 50

DEFAULT_MODEL_cnn == "cnn"

\* model: str = Form("xgb")
DEFAULT_MODEL == "xgb"

-----------------------------------------------------------------------------
(* Optional values                                                         *)

NA == {}
notna(c) == c # {}
val(c) == CHOOSE x \in c : TRUE

\* Form("xgb"), Form(0.5): an omitted form field takes its default.
FormDefault(opt, default) == IF opt = {} THEN default ELSE val(opt)

RECURSIVE SumSeq(_)
SumSeq(s) == IF s = <<>> THEN 0 ELSE Head(s) + SumSeq(Tail(s))

\* np.sum(mask): how many elements of s lie in S.
Count(s, S) == Cardinality({i \in 1..Len(s) : s[i] \in S})

-----------------------------------------------------------------------------
(* Input domains                                                           *)

\* Raw feature values of a data row (one canonical column stands for the
\* feature vector).
Feats == {1, 2}
\* Parameters of a manual entry.
ManualFeats == 1..11
FileNames == {"data.csv", "data.txt"}
ModelChoices == {{}, {"xgb"}, {"cnn"}}
ThresholdChoices == {{}, {0 - 1}, {0}, {80}, {100}, {101}}

\* kepoi_name of the row read at 0-based position i, when the cell is filled.
KoiName(i) == "K" \o ToString(i)

-----------------------------------------------------------------------------
(* backend/core/model_registry.py                                          *)

\* The models _load_models knows how to load.
KnownModels == {"xgb"}

\* The models _load_models has a scaler file for: the others are pass-through.
ScaledModels == {"xgb"}

\* ModelRegistry._load_models: the keys each dictionary holds after the load.
LoadedModels(d) == IF d.xgb_pkl THEN {"xgb"} ELSE {}
LoadedScalers(d) == IF d.scaler_pkl THEN {"xgb"} ELSE {}
LoadedMetadata(d) == IF d.xgb_pkl THEN {"xgb"} ELSE {}

\* A lookup that falls back to the default model for an unknown id.
get_model_fallback(models, model_name) ==
    IF model_name \in models
        THEN [kind |-> "ok", model |-> model_name, available |-> {}]
        ELSE IF DEFAULT_MODEL \in models
            THEN [kind |-> "ok", model |-> DEFAULT_MODEL, available |-> {}]
            ELSE [kind |-> "raise", model |-> model_name, available |-> models]

\* ModelRegistry.get_model: the model, or ValueError naming the loaded ids.
get_model(models, model_name) ==
    IF model_name \notin models
        THEN [kind |-> "raise", model |-> model_name, available |-> models]
        ELSE [kind |-> "ok", model |-> model_name, available |-> {}]

\* ModelRegistry.get_scaler: dict.get, {} (None) when the model has no scaler.
get_scaler(scalers, model_name) ==
    IF model_name \in scalers THEN {model_name} ELSE {}

-----------------------------------------------------------------------------
(* Collaborators whose code is outside the source tree                     *)

\* clean_data + extract_features: the index of the rows that survive, in
\* input order (a row with a missing required value is dropped).
ValidIndex(file_rows) ==
    SelectSeq([i \in 1..Len(file_rows) |-> i], LAMBDA i : notna(file_rows[i].feat))

\* FeatureScaler.transform with the fitted statistics of scaler.pkl.
transform(x) == x + 1

\* clf.predict_proba(...)[:, 1] of the pickled classifier: a fixed table.
ProbaTable == <<50, 80, 100, 0, 20, 21, 40, 41, 59, 60, 79, 87>>
predict_proba(model, x) == ProbaTable[x]

-----------------------------------------------------------------------------
(* backend/api/predict.py                                                  *)

\* The request whose answers are compared: a one-row upload with the
\* defaults, and the empty history.
ProbeRequest ==
    [kind |-> "predict", filename |-> "data.csv", model |-> {}, threshold |-> {},
     file_rows |-> <<[kepoi_name |-> {}, feat |-> {1}]>>]
NoProbe == [seen |-> FALSE, response |-> [kind |-> "none"], others |-> FALSE]

\* handlePredict calls: one record per call that reached the request.
CallIds == 1..MaxCalls
NoCall == [pc |-> "unused", interval |-> FALSE, completeTimer |-> FALSE,
           loadingTimer |-> FALSE, mounted |-> FALSE, completions |-> 0]

\* loadSampleData calls: the dataset and the limit each request was sent with.
SampleIds == 1..MaxSampleRequests
NoSampleRequest == [pc |-> "unused", dataset |-> "", limit |-> 0]
NoSample == [dataset |-> "", limit |-> 0]
SampleLimits == {25, 50, 100, 200}

\* checkApiHealth calls: what getApiStatus will report when it returns.
HealthIds == 1..MaxHealthChecks
NoHealthCheck == [pc |-> "unused", connected |-> FALSE]

\* Requests in flight: a slot per request the server holds, and the
\* requests that arrive in them.
Slots == 1..MaxInFlight
Idle == [pc |-> "idle", request |-> [kind |-> "none"], response |-> [kind |-> "none"]]
ConcFiles ==
    { <<>>,
      <<[kepoi_name |-> {}, feat |-> {1}]>>,
      <<[kepoi_name |-> {}, feat |-> {}], [kepoi_name |-> {KoiName(1)}, feat |-> {2}]>> }
ConcRequests ==
    [kind : {"predict"}, filename : {"data.csv"}, model : {{}, {"cnn"}},
     threshold : {{}, {80}, {101}}, file_rows : ConcFiles]

NoRequest == [kind |-> "none"]
NoResponse == [kind |-> "none"]

\* raise HTTPException(status_code, detail) / raise ValueError(message)
Raise(exc, status, msg, available) ==
    [kind |-> "raise", exc |-> exc, status_code |-> status, msg |-> msg,
     available |-> available]

\* A threshold field declared without ge/le.
ThresholdValidLax(threshold) == TRUE

\* Form(0.5, ge=0.0, le=1.0): the framework validates the field before the
\* handler runs.
ThresholdValid(threshold) ==
    threshold >= THRESHOLD_GE /\ threshold <= THRESHOLD_LE

\* clf.predict's fixed 0.5 cut in place of the caller's threshold.
y_pred_fixed(p, threshold) == IF p >= DEFAULT_THRESHOLD THEN 1 ELSE 0

\* A strict comparison in place of >=.
y_pred_strict(p, threshold) == IF p > threshold THEN 1 ELSE 0

\* y_pred = (y_proba >= threshold).astype(int), elementwise
y_pred_of(p, threshold) == IF p >= threshold THEN 1 ELSE 0

\* "PLANET" if y_pred[idx] == 1 else "FALSE POSITIVE"
PredictionLabel(y) == IF y = 1 THEN "PLANET" ELSE "FALSE POSITIVE"

\* sample_id: the first filled id column of the row, else str(orig_idx).
\* The model carries one id column, kepoi_name, the first the loop tries.
sample_id(file_rows, i) ==
    IF notna(file_rows[i].kepoi_name)
        THEN val(file_rows[i].kepoi_name)
        ELSE ToString(i - 1)

\* df.iloc[:len(X)]: the first rows of the table, whatever their index.
ResponseRowsPositional(file_rows, X_index) == [k \in 1..Len(X_index) |-> k]

\* df.loc[X.index]: the rows of the uploaded table the loop iterates over.
ResponseRows(file_rows, X_index) == X_index

\* X_scaled: scaler.transform(X.values) if the model has a scaler, else X.
X_scaled_of(X, scaler) ==
    IF notna(scaler) THEN [k \in 1..Len(X) |-> transform(X[k])] ELSE X

\* A loop over every uploaded row that gives a dropped row a default verdict.
BuildPredictionsDefaulting(file_rows, X_index, X, y_proba, y_pred) ==
    [i \in 1..Len(file_rows) |->
        IF \E k \in 1..Len(X_index) : X_index[k] = i
            THEN LET k == CHOOSE k \in 1..Len(X_index) : X_index[k] = i
                 IN [id |-> sample_id(file_rows, i),
                     prediction |-> PredictionLabel(y_pred[k]),
                     probability |-> y_proba[k],
                     features |-> X[k]]
            ELSE [id |-> sample_id(file_rows, i),
                  prediction |-> "FALSE POSITIVE",
                  probability |-> 0,
                  features |-> 0]]

\* The loop that builds the list of SinglePrediction.
BuildPredictions(file_rows, X_index, X, y_proba, y_pred) ==
    LET loop_rows == ResponseRows(file_rows, X_index)
    IN [idx \in 1..Len(loop_rows) |->
            [id |-> sample_id(file_rows, loop_rows[idx]),
             prediction |-> PredictionLabel(y_pred[idx]),
             probability |-> y_proba[idx],
             features |-> X[idx]]]

\* A summary whose false positives are counted against 0.5.
BuildSummaryHalf(y_proba, y_pred) ==
    [predicted_planets |-> Count(y_pred, {1}),
     false_positives |-> Count(y_proba, {p \in 0..100 : p < DEFAULT_THRESHOLD}),
     mean_probability |-> [sum |-> SumSeq(y_proba), count |-> Len(y_proba)],
     high_confidence_count |-> Count(y_proba, {p \in 0..100 : p > HIGH_CONFIDENCE_CUT})]

\* PredictionSummary(...); the mean is kept exact as sum over count.
BuildSummary(y_proba, y_pred) ==
    [predicted_planets |-> Count(y_pred, {1}),
     false_positives |-> Count(y_pred, {0}),
     mean_probability |-> [sum |-> SumSeq(y_proba), count |-> Len(y_proba)],
     high_confidence_count |-> Count(y_proba, {p \in 0..100 : p > HIGH_CONFIDENCE_CUT})]

\* The body of the try block: a PredictionResponse, or the exception raised.
\* processing_time_ms is wall-clock time and is left out.
TryBody(models, scalers, file_rows, filename, model, threshold) ==
    IF filename \notin {"data.csv"}
        THEN Raise("HTTPException", 400, "File must be a CSV", {})
    ELSE
    LET X_index == ValidIndex(file_rows)
        X == [k \in 1..Len(X_index) |-> val(file_rows[X_index[k]].feat)]
    IN
    IF Len(X_index) = 0
        THEN Raise("HTTPException", 400, "No valid samples found in file", {})
    ELSE
    LET clf == get_model(models, model)
    IN
    IF clf.kind = "raise"
        THEN Raise("ValueError", 0, "Model not found", clf.available)
    ELSE
    LET scaler == get_scaler(scalers, model)
        X_scaled == X_scaled_of(X, scaler)
        y_proba == [k \in 1..Len(X_scaled) |-> predict_proba(clf.model, X_scaled[k])]
        y_pred == [k \in 1..Len(y_proba) |-> y_pred_of(y_proba[k], threshold)]
        predictions == BuildPredictions(file_rows, X_index, X, y_proba, y_pred)
        summary == BuildSummary(y_proba, y_pred)
    IN [kind |-> "ok",
        success |-> TRUE,
        model_used |-> model,
        scored_with |-> clf.model,   \* not a response field: the classifier used
        threshold |-> threshold,
        total_samples |-> Len(predictions),
        predictions |-> predictions,
        summary |-> summary]

\* A handler that falls back to whatever model file is on disk by now when
\* the asked model is not in the registry.
predict_exoplanets_lazy(models, scalers, file_rows, filename, model_opt, threshold_opt) ==
    LET model == FormDefault(model_opt, DEFAULT_MODEL)
        threshold == FormDefault(threshold_opt, DEFAULT_THRESHOLD)
        onDisk == models \cup LoadedModels(disk)
    IN
    IF ~ThresholdValid(threshold)
        THEN [kind |-> "error", status_code |-> 422, phase |-> "validation",
              cause |-> "RequestValidationError", msg |-> "threshold",
              available |-> {}]
    ELSE
    LET r == TryBody(onDisk, scalers, file_rows, filename, model, threshold)
    IN IF r.kind = "raise"
        THEN [kind |-> "error", status_code |-> 500, phase |-> "handler",
              cause |-> r.exc, msg |-> r.msg, available |-> r.available]
        ELSE r

\* POST /predict: field validation, the try block, and
\* except Exception as e: raise HTTPException(500, f"Prediction failed: {e}")
predict_exoplanets(models, scalers, file_rows, filename, model_opt, threshold_opt) ==
    LET model == FormDefault(model_opt, DEFAULT_MODEL)
        threshold == FormDefault(threshold_opt, DEFAULT_THRESHOLD)
    IN
    IF ~ThresholdValid(threshold)
        THEN [kind |-> "error", status_code |-> 422, phase |-> "validation",
              cause |-> "RequestValidationError", msg |-> "threshold",
              available |-> {}]
    ELSE
    LET r == TryBody(models, scalers, file_rows, filename, model, threshold)
    IN IF r.kind = "raise"
        THEN [kind |-> "error", status_code |-> 500, phase |-> "handler",
              cause |-> r.exc, msg |-> r.msg, available |-> r.available]
        ELSE r

-----------------------------------------------------------------------------
(* POST /manual-predict: Verdict Builder and Single-Sample Orchestrator    *)

\* Confidence bucket of a verdict.
ConfidenceBucket(p) ==
    IF p >= 80 \/ p <= 20 THEN "HIGH"
    ELSE IF (p >= 60 /\ p < 80) \/ (p > 20 /\ p <= 40) THEN "MEDIUM"
    ELSE "LOW"

\* A bucket taken from the distance to the threshold instead.
build_relative(probability, threshold) ==
    LET d == IF probability >= threshold THEN probability - threshold
                                         ELSE threshold - probability
    IN [label |-> PredictionLabel(y_pred_of(probability, threshold)),
        confidence |-> IF d >= 30 THEN "HIGH" ELSE IF d >= 10 THEN "MEDIUM" ELSE "LOW"]

\* build(probability, threshold): label and confidence bucket.
build(probability, threshold) ==
    [label |-> PredictionLabel(y_pred_of(probability, threshold)),
     confidence |-> ConfidenceBucket(probability)]

\* A single-sample path that scores the parameters without scaling them.
runSingle_unscaled(models, scalers, feat, model_opt, threshold_opt) ==
    LET model == FormDefault(model_opt, DEFAULT_MODEL)
        threshold == FormDefault(threshold_opt, DEFAULT_THRESHOLD)
    IN
    IF ~ThresholdValid(threshold)
        THEN [kind |-> "error", status_code |-> 0, phase |-> "validation",
              cause |-> "InvalidThresholdError", msg |-> "threshold",
              available |-> {}]
    ELSE IF model \notin models
        THEN [kind |-> "error", status_code |-> 0, phase |-> "handler",
              cause |-> "UnknownModelError", msg |-> "Model not found",
              available |-> models]
    ELSE
    LET probability == predict_proba(model, feat)
        verdict == build(probability, threshold)
    IN [kind |-> "manual",
        success |-> TRUE,
        prediction |-> verdict.label,
        probability |-> probability,
        confidence |-> verdict.confidence,
        model_used |-> model,
        features_used |-> feat]

\* runSingle(parameters, model_id, threshold): extraction, scaling, scoring
\* and the verdict for one parameter set.  The spec names no status codes.
runSingle(models, scalers, feat, model_opt, threshold_opt) ==
    LET model == FormDefault(model_opt, DEFAULT_MODEL)
        threshold == FormDefault(threshold_opt, DEFAULT_THRESHOLD)
    IN
    IF ~ThresholdValid(threshold)
        THEN [kind |-> "error", status_code |-> 0, phase |-> "validation",
              cause |-> "InvalidThresholdError", msg |-> "threshold",
              available |-> {}]
    ELSE IF model \notin models
        THEN [kind |-> "error", status_code |-> 0, phase |-> "handler",
              cause |-> "UnknownModelError", msg |-> "Model not found",
              available |-> models]
    ELSE
    LET X_scaled == X_scaled_of(<<feat>>, get_scaler(scalers, model))
        probability == predict_proba(model, X_scaled[1])
        verdict == build(probability, threshold)
    IN [kind |-> "manual",
        success |-> TRUE,
        prediction |-> verdict.label,
        probability |-> probability,
        confidence |-> verdict.confidence,
        model_used |-> model,
        features_used |-> feat]

-----------------------------------------------------------------------------
(* frontend: PredictionResults.tsx                                         *)

\* Math.round((a / b) * 100) for non-negative a and positive b.
RoundPercent(a, b) == (200 * a + b) \div (2 * b)

\* The "High Confidence" summary card: "Predictions >80%: {count}".
HighConfidenceCard(data) ==
    [above_percent |-> HIGH_CONF_CARD_PERCENT,
     count |-> data.summary.high_confidence_count,
     percentage |-> RoundPercent(data.summary.high_confidence_count,
                                 data.total_samples)]

-----------------------------------------------------------------------------
(* State machine                                                           *)

Init ==
    /\ disk \in [xgb_pkl : BOOLEAN, scaler_pkl : BOOLEAN]
    /\ _instance = FALSE
    /\ _models = {}
    /\ _scalers = {}
    /\ _metadata = {}
    /\ rows = <<>>
    /\ request = NoRequest
    /\ response = NoResponse
    /\ probe = NoProbe
    /\ inflight = [i \in Slots |-> Idle]
    /\ activeTab = "upload"
    /\ predictionData = {}
    /\ isLoading = FALSE
    /\ apiConnected = FALSE
    /\ file = {}
    /\ error = {}
    /\ uploadProgress = 0
    /\ calls = [c \in CallIds |-> NoCall]
    /\ datasetsCall = "pending"
    /\ datasets = {}
    /\ selectedDataset = ""
    /\ sampleData = NoSample
    /\ loading = FALSE
    /\ explorerError = {}
    /\ sampleLimit = DEFAULT_SAMPLE_LIMIT
    /\ sampleRequests = [r \in SampleIds |-> NoSampleRequest]
    /\ appPhase = "rendered"
    /\ pollTimer = FALSE
    /\ healthChecks = [h \in HealthIds |-> NoHealthCheck]

\* A constructor that loads the models again on every construction.
ModelRegistry_new_reload ==
    /\ _instance' = TRUE
    /\ _models' = _models \cup LoadedModels(disk)
    /\ _scalers' = _scalers \cup LoadedScalers(disk)
    /\ _metadata' = _metadata \cup LoadedMetadata(disk)
    /\ UNCHANGED <<disk, rows, request, response>>

\* ModelRegistry(): __new__ loads the models on the first construction only.
ModelRegistry_new ==
    /\ IF ~_instance
        THEN /\ _instance' = TRUE
             /\ _models' = _models \cup LoadedModels(disk)
             /\ _scalers' = _scalers \cup LoadedScalers(disk)
             /\ _metadata' = _metadata \cup LoadedMetadata(disk)
        ELSE UNCHANGED <<_instance, _models, _scalers, _metadata>>
    /\ UNCHANGED <<disk, rows, request, response>>

\* A training run writes a model or scaler file that was missing
\* ("You may need to train the model first using scripts/train_xgb.py").
TrainModel ==
    /\ \E f \in {"xgb_pkl", "scaler_pkl"} :
        /\ ~disk[f]
        /\ disk' = [disk EXCEPT ![f] = TRUE]
    /\ UNCHANGED <<_instance, _models, _scalers, _metadata, rows, request, response>>

\* The client adds one data row to the CSV file it will upload.
AppendRow ==
    /\ response.kind = "none"
    /\ Len(rows) < MaxRows
    /\ \E named \in BOOLEAN, feat \in {NA} \cup {{f} : f \in Feats} :
        rows' = Append(rows,
                       [kepoi_name |-> IF named THEN {KoiName(Len(rows))} ELSE NA,
                        feat |-> feat])
    /\ UNCHANGED <<disk, _instance, _models, _scalers, _metadata, request, response>>

\* POST /predict, served once the module-level registry exists.
Predict ==
    /\ _instance
    /\ response.kind = "none"
    /\ \E filename \in FileNames, model_opt \in ModelChoices,
          threshold_opt \in ThresholdChoices :
        /\ request' = [kind |-> "predict", filename |-> filename,
                       model |-> model_opt, threshold |-> threshold_opt,
                       file_rows |-> rows]
        /\ response' = predict_exoplanets(_models, _scalers, rows, filename,
                                          model_opt, threshold_opt)
    /\ UNCHANGED <<disk, _instance, _models, _scalers, _metadata, rows>>

\* POST /manual-predict: a manual entry carries no file.
ManualPredict ==
    /\ _instance
    /\ response.kind = "none"
    /\ rows = <<>>
    /\ \E feat \in ManualFeats, model_opt \in ModelChoices,
          threshold_opt \in ThresholdChoices :
        /\ request' = [kind |-> "manual", feat |-> feat,
                       model |-> model_opt, threshold |-> threshold_opt,
                       file_rows |-> <<>>]
        /\ response' = runSingle(_models, _scalers, feat, model_opt, threshold_opt)
    /\ UNCHANGED <<disk, _instance, _models, _scalers, _metadata, rows>>

\* The caller has its answer; the next request starts from a new file.
NextRequest ==
    /\ response.kind # "none"
    /\ rows' = <<>>
    /\ request' = NoRequest
    /\ response' = NoResponse
    /\ UNCHANGED <<disk, _instance, _models, _scalers, _metadata>>

Next ==
    \/ ModelRegistry_new /\ UNCHANGED <<probe, inflight, uiVars, explorerVars, healthVars>>
    \/ TrainModel /\ UNCHANGED <<probe, inflight, uiVars, explorerVars, healthVars>>
    \/ AppendRow /\ UNCHANGED <<probe, inflight, uiVars, explorerVars, healthVars>>
    \/ Predict /\ UNCHANGED <<probe, inflight, uiVars, explorerVars, healthVars>>
    \/ ManualPredict /\ UNCHANGED <<probe, inflight, uiVars, explorerVars, healthVars>>
    \/ NextRequest /\ UNCHANGED <<probe, inflight, uiVars, explorerVars, healthVars>>

Spec == Init /\ [][Next]_vars

-----------------------------------------------------------------------------
(* The same machine observed through one repeated request                  *)

\* Records the first answer to ProbeRequest, and afterwards whether a
\* different request has been answered since.
Observe ==
    IF request' = request THEN probe' = probe
    ELSE IF request' = ProbeRequest
        THEN probe' = IF probe.seen THEN probe
                      ELSE [seen |-> TRUE, response |-> response', others |-> FALSE]
    ELSE IF request'.kind # "none" /\ probe.seen
        THEN probe' = [probe EXCEPT !.others = TRUE]
    ELSE probe' = probe

NextProbe ==
    \/ ModelRegistry_new /\ Observe /\ UNCHANGED <<inflight, uiVars, explorerVars, healthVars>>
    \/ TrainModel /\ Observe /\ UNCHANGED <<inflight, uiVars, explorerVars, healthVars>>
    \/ AppendRow /\ Len(rows) < MaxProbeRows /\ Observe /\ UNCHANGED <<inflight, uiVars, explorerVars, healthVars>>
    \/ Predict /\ Observe /\ UNCHANGED <<inflight, uiVars, explorerVars, healthVars>>
    \/ ManualPredict /\ Observe /\ UNCHANGED <<inflight, uiVars, explorerVars, healthVars>>
    \/ NextRequest /\ Observe /\ UNCHANGED <<inflight, uiVars, explorerVars, healthVars>>

SpecProbe == Init /\ [][NextProbe]_vars

-----------------------------------------------------------------------------
(* Several requests in the server at once.  predict_exoplanets has no      *)
(* await in its body, so each call runs to its end on the event loop;      *)
(* requests overlap between arrival, handling and the sending of the       *)
(* answer.                                                                 *)

\* The server takes a request in.
Receive(i) ==
    /\ _instance
    /\ inflight[i].pc = "idle"
    /\ \E rq \in ConcRequests :
        inflight' = [inflight EXCEPT ![i] =
                        [pc |-> "received", request |-> rq, response |-> NoResponse]]
    /\ UNCHANGED <<disk, _instance, _models, _scalers, _metadata>>

\* A handler that, on an unknown model, registers the default model under
\* the asked name for the requests that follow.
Handle_registering(i) ==
    /\ inflight[i].pc = "received"
    /\ LET rq == inflight[i].request
           asked == FormDefault(rq.model, DEFAULT_MODEL)
       IN /\ inflight' = [inflight EXCEPT ![i].pc = "answered",
                 ![i].response = predict_exoplanets(_models, _scalers, rq.file_rows,
                                                    rq.filename, rq.model, rq.threshold)]
          /\ _models' = IF DEFAULT_MODEL \in _models THEN _models \cup {asked}
                                                     ELSE _models
    /\ UNCHANGED <<disk, _instance, _scalers, _metadata>>

\* The event loop runs the handler of one request that has arrived.
Handle(i) ==
    /\ inflight[i].pc = "received"
    /\ LET rq == inflight[i].request
       IN inflight' = [inflight EXCEPT ![i].pc = "answered",
                 ![i].response = predict_exoplanets(_models, _scalers, rq.file_rows,
                                                    rq.filename, rq.model, rq.threshold)]
    /\ UNCHANGED <<disk, _instance, _models, _scalers, _metadata>>

\* The answer has gone out; the slot is free for the next request.
Send(i) ==
    /\ inflight[i].pc = "answered"
    /\ inflight' = [inflight EXCEPT ![i] = Idle]
    /\ UNCHANGED <<disk, _instance, _models, _scalers, _metadata>>

NextConc ==
    \/ ModelRegistry_new /\ UNCHANGED <<probe, inflight, uiVars, explorerVars, healthVars>>
    \/ \E i \in Slots : Receive(i) /\ UNCHANGED <<rows, request, response, probe, uiVars,
                                               explorerVars, healthVars>>
    \/ \E i \in Slots : Handle(i) /\ UNCHANGED <<rows, request, response, probe, uiVars,
                                               explorerVars, healthVars>>
    \/ \E i \in Slots : Send(i) /\ UNCHANGED <<rows, request, response, probe, uiVars,
                                               explorerVars, healthVars>>

SpecConc == Init /\ [][NextConc]_vars

-----------------------------------------------------------------------------
(* The React front end: App.tsx and components/FileUpload.tsx              *)

NOT_CONNECTED == "API server is not connected. Please check if the backend is running."
NOT_CSV == "Please upload a CSV file"
FAILED == "Failed to process file"

\* Math.random() * 20, to the two values the model tells apart.
ProgressSteps == {5, 15}
Min(a, b) == IF a < b THEN a ELSE b

\* FileUpload is rendered only while activeTab === 'upload'; a tab change
\* away from it unmounts the component and its state is gone, a change back
\* mounts a new one.  Timers and requests of the old one go on.
Unmounts(tab) == activeTab = "upload" /\ tab # "upload"
Rendered(tab) ==
    IF Unmounts(tab)
        THEN /\ file' = {}
             /\ error' = {}
             /\ uploadProgress' = 0
             /\ calls' = [c \in CallIds |-> [calls[c] EXCEPT !.mounted = FALSE]]
        ELSE UNCHANGED <<file, error, uploadProgress, calls>>

\* Tab buttons none of which is ever disabled.
setActiveTab_unguarded(tab) ==
    /\ tab # activeTab
    /\ activeTab' = tab
    /\ Rendered(tab)
    /\ UNCHANGED <<predictionData, isLoading, apiConnected>>

\* The tab buttons; the results tab is disabled while predictionData is null.
setActiveTab(tab) ==
    /\ tab # activeTab
    /\ tab = "results" => predictionData # {}
    /\ activeTab' = tab
    /\ Rendered(tab)
    /\ UNCHANGED <<predictionData, isLoading, apiConnected>>

\* checkApiHealth: a health check completes and sets apiConnected.
checkApiHealth ==
    /\ \E connected \in BOOLEAN :
        /\ connected # apiConnected
        /\ apiConnected' = connected
    /\ UNCHANGED <<activeTab, predictionData, isLoading, file, error,
                   uploadProgress, calls>>

\* handleFileInput / handleDrop: a CSV file is taken, anything else refused.
handleFileInput ==
    /\ activeTab = "upload"
    /\ \E name \in FileNames :
        IF name = "data.csv"
            THEN file' = {name} /\ error' = {}
            ELSE file' = file /\ error' = {NOT_CSV}
    /\ UNCHANGED <<activeTab, predictionData, isLoading, apiConnected,
                   uploadProgress, calls>>

\* The Remove File button, shown while a file is selected.
RemoveFile ==
    /\ activeTab = "upload"
    /\ file # {}
    /\ file' = {}
    /\ error' = {}
    /\ UNCHANGED <<activeTab, predictionData, isLoading, apiConnected,
                   uploadProgress, calls>>

\* A handlePredict without the connection check.
handlePredict_unchecked ==
    IF file = {} THEN UNCHANGED uiVars
    ELSE
        /\ \E c \in CallIds :
            /\ calls[c].pc = "unused"
            /\ \A b \in CallIds : b < c => calls[b].pc # "unused"
            /\ calls' = [calls EXCEPT ![c] =
                            [pc |-> "pending", interval |-> TRUE, completeTimer |-> FALSE,
                             loadingTimer |-> FALSE, mounted |-> TRUE,
                             completions |-> 0]]
        /\ isLoading' = TRUE
        /\ error' = {}
        /\ uploadProgress' = 0
        /\ UNCHANGED <<activeTab, predictionData, apiConnected, file>>

\* handlePredict, up to the request: the two early returns, then
\* setIsLoading(true), setError(null), setUploadProgress(0), setInterval and
\* apiService.predictExoplanets.
handlePredict ==
    IF file = {} THEN UNCHANGED uiVars
    ELSE IF ~apiConnected
        THEN /\ error' = {NOT_CONNECTED}
             /\ UNCHANGED <<activeTab, predictionData, isLoading, apiConnected, file,
                            uploadProgress, calls>>
    ELSE
        /\ \E c \in CallIds :
            /\ calls[c].pc = "unused"
            /\ \A b \in CallIds : b < c => calls[b].pc # "unused"
            /\ calls' = [calls EXCEPT ![c] =
                            [pc |-> "pending", interval |-> TRUE, completeTimer |-> FALSE,
                             loadingTimer |-> FALSE, mounted |-> TRUE,
                             completions |-> 0]]
        /\ isLoading' = TRUE
        /\ error' = {}
        /\ uploadProgress' = 0
        /\ UNCHANGED <<activeTab, predictionData, apiConnected, file>>

\* A Predict button that stays enabled while a request is loading.
PredictButton_always ==
    /\ activeTab = "upload"
    /\ file # {}
    /\ handlePredict

\* The Predict button: disabled={!file || isLoading}, onClick={handlePredict}.
PredictButton ==
    /\ activeTab = "upload"
    /\ ~(file = {} \/ isLoading)
    /\ handlePredict

\* progressInterval: every 200 ms, while it has not been cleared.
ProgressTick(c) ==
    /\ calls[c].interval
    /\ calls[c].mounted
    /\ \E step \in ProgressSteps :
        uploadProgress' = Min(uploadProgress + step, 90)
    /\ uploadProgress' # uploadProgress
    /\ UNCHANGED <<activeTab, predictionData, isLoading, apiConnected, file, error, calls>>

\* The request resolves: clearInterval, setUploadProgress(100), the 500 ms
\* timer for onPredictionComplete, and the finally block's 1000 ms timer.
Resolve(c) ==
    /\ calls[c].pc = "pending"
    /\ calls' = [calls EXCEPT ![c].pc = "resolved", ![c].interval = FALSE,
                              ![c].completeTimer = TRUE, ![c].loadingTimer = TRUE]
    /\ uploadProgress' = IF calls[c].mounted THEN 100 ELSE uploadProgress
    /\ UNCHANGED <<activeTab, predictionData, isLoading, apiConnected, file, error>>

\* A failure path that also sets the 500 ms timer for onPredictionComplete.
Reject_completing(c) ==
    /\ calls[c].pc = "pending"
    /\ calls' = [calls EXCEPT ![c].pc = "rejected", ![c].loadingTimer = TRUE,
                              ![c].completeTimer = TRUE]
    /\ error' = IF calls[c].mounted THEN {FAILED} ELSE error
    /\ uploadProgress' = IF calls[c].mounted THEN 0 ELSE uploadProgress
    /\ UNCHANGED <<activeTab, predictionData, isLoading, apiConnected, file>>

\* The request rejects: the catch block, then the finally block's timer.
\* clearInterval is in the try block after the await and is not reached.
Reject(c) ==
    /\ calls[c].pc = "pending"
    /\ calls' = [calls EXCEPT ![c].pc = "rejected", ![c].loadingTimer = TRUE]
    /\ error' = IF calls[c].mounted THEN {FAILED} ELSE error
    /\ uploadProgress' = IF calls[c].mounted THEN 0 ELSE uploadProgress
    /\ UNCHANGED <<activeTab, predictionData, isLoading, apiConnected, file>>

\* The 500 ms timer: onPredictionComplete(data), App.handlePredictionComplete.
handlePredictionComplete(c) ==
    /\ calls[c].completeTimer
    /\ predictionData' = {c}
    /\ activeTab' = "results"
    /\ file' = IF Unmounts("results") THEN {} ELSE file
    /\ error' = IF Unmounts("results") THEN {} ELSE error
    /\ uploadProgress' = IF Unmounts("results") THEN 0 ELSE uploadProgress
    /\ calls' = [b \in CallIds |->
                    IF b = c
                        THEN [calls[b] EXCEPT !.completeTimer = FALSE,
                                !.completions = calls[b].completions + 1,
                                !.mounted = calls[b].mounted /\ ~Unmounts("results")]
                        ELSE [calls[b] EXCEPT
                                !.mounted = calls[b].mounted /\ ~Unmounts("results")]]
    /\ UNCHANGED <<isLoading, apiConnected>>

\* A timer whose setIsLoading(false) is lost once FileUpload is unmounted.
LoadingTimer_mounted(c) ==
    /\ calls[c].loadingTimer
    /\ ~calls[c].completeTimer
    /\ isLoading' = IF calls[c].mounted THEN FALSE ELSE isLoading
    /\ calls' = [calls EXCEPT ![c].loadingTimer = FALSE]
    /\ UNCHANGED <<activeTab, predictionData, apiConnected, file, error, uploadProgress>>

\* The 1000 ms timer of the finally block: setIsLoading(false).  It was set
\* right after the 500 ms one, so it fires after it.
LoadingTimer(c) ==
    /\ calls[c].loadingTimer
    /\ ~calls[c].completeTimer
    /\ isLoading' = FALSE
    /\ calls' = [calls EXCEPT ![c].loadingTimer = FALSE]
    /\ UNCHANGED <<activeTab, predictionData, apiConnected, file, error, uploadProgress>>

notUI == <<serverVars, explorerVars, healthVars>>

NextUI ==
    \/ \E tab \in {"upload", "visualize", "results"} :
            setActiveTab(tab) /\ UNCHANGED notUI
    \/ checkApiHealth /\ UNCHANGED notUI
    \/ handleFileInput /\ UNCHANGED notUI
    \/ RemoveFile /\ UNCHANGED notUI
    \/ PredictButton /\ UNCHANGED notUI
    \/ \E c \in CallIds : ProgressTick(c) /\ UNCHANGED notUI
    \/ \E c \in CallIds : Resolve(c) /\ UNCHANGED notUI
    \/ \E c \in CallIds : Reject(c) /\ UNCHANGED notUI
    \/ \E c \in CallIds : handlePredictionComplete(c) /\ UNCHANGED notUI
    \/ \E c \in CallIds : LoadingTimer(c) /\ UNCHANGED notUI

SpecUI == Init /\ [][NextUI]_vars

\* The browser runs every timer that is due, and fetch settles: with a
\* response, or with a network error.
FairUI ==
    \A c \in CallIds :
        /\ WF_vars(handlePredictionComplete(c) /\ UNCHANGED notUI)
        /\ WF_vars(LoadingTimer(c) /\ UNCHANGED notUI)
        /\ WF_vars((Resolve(c) \/ Reject(c)) /\ UNCHANGED notUI)

SpecUILive == Init /\ [][NextUI]_vars /\ FairUI

-----------------------------------------------------------------------------
(* components/DatasetExplorer.tsx                                          *)

LOAD_DATASETS_FAILED == "Failed to load datasets"
LOAD_SAMPLE_FAILED == "Failed to load sample data"

\* loadDatasets, called by the mount effect: getDatasets returns or throws.
loadDatasets ==
    /\ datasetsCall = "pending"
    /\ datasetsCall' = "done"
    /\ \E ok \in BOOLEAN :
        IF ok THEN datasets' = {"kepler", "tess"} /\ explorerError' = explorerError
              ELSE datasets' = datasets /\ explorerError' = {LOAD_DATASETS_FAILED}
    /\ UNCHANGED <<selectedDataset, sampleData, loading, sampleLimit, sampleRequests>>

\* loadSampleData(datasetName) up to the await.  sampleLimit is the value
\* of the render the calling handler was created in.
loadSampleData(datasetName) ==
    IF datasetName = ""
        THEN UNCHANGED <<loading, explorerError, sampleRequests>>
        ELSE /\ loading' = TRUE
             /\ explorerError' = {}
             /\ \E r \in SampleIds :
                /\ sampleRequests[r].pc = "unused"
                /\ \A q \in SampleIds : q < r => sampleRequests[q].pc # "unused"
                /\ sampleRequests' = [sampleRequests EXCEPT ![r] =
                        [pc |-> "pending", dataset |-> datasetName, limit |-> sampleLimit]]

\* A dataset card is clicked.
handleDatasetSelect(datasetName) ==
    /\ datasetName \in {"combined"} \cup datasets
    /\ selectedDataset' = datasetName
    /\ loadSampleData(datasetName)
    /\ UNCHANGED <<datasetsCall, datasets, sampleData, sampleLimit>>

\* The Sample Size select, shown once a dataset is selected:
\* setSampleLimit(Number(e.target.value)); loadSampleData(selectedDataset).
SampleLimitChange(limit) ==
    /\ selectedDataset # ""
    /\ limit # sampleLimit
    /\ sampleLimit' = limit
    /\ loadSampleData(selectedDataset)
    /\ UNCHANGED <<datasetsCall, datasets, selectedDataset, sampleData>>

\* The Try Again button of the error state.
TryAgain ==
    /\ selectedDataset # ""
    /\ explorerError # {}
    /\ loadSampleData(selectedDataset)
    /\ UNCHANGED <<datasetsCall, datasets, selectedDataset, sampleData, sampleLimit>>

\* The request returns with success: setSampleData, then setLoading(false).
SampleResolve(r) ==
    /\ sampleRequests[r].pc = "pending"
    /\ sampleRequests' = [sampleRequests EXCEPT ![r].pc = "resolved"]
    /\ sampleData' = [dataset |-> sampleRequests[r].dataset,
                      limit |-> sampleRequests[r].limit]
    /\ loading' = FALSE
    /\ UNCHANGED <<datasetsCall, datasets, selectedDataset, explorerError, sampleLimit>>

\* The request throws or returns without success: setError, setLoading(false).
SampleFail(r) ==
    /\ sampleRequests[r].pc = "pending"
    /\ sampleRequests' = [sampleRequests EXCEPT ![r].pc = "failed"]
    /\ explorerError' = {LOAD_SAMPLE_FAILED}
    /\ loading' = FALSE
    /\ UNCHANGED <<datasetsCall, datasets, selectedDataset, sampleData, sampleLimit>>

notExplorer == <<serverVars, uiVars, healthVars>>

NextExplorer ==
    \/ loadDatasets /\ UNCHANGED notExplorer
    \/ \E name \in {"combined", "kepler", "tess"} :
            handleDatasetSelect(name) /\ UNCHANGED notExplorer
    \/ \E limit \in SampleLimits : SampleLimitChange(limit) /\ UNCHANGED notExplorer
    \/ TryAgain /\ UNCHANGED notExplorer
    \/ \E r \in SampleIds : SampleResolve(r) /\ UNCHANGED notExplorer
    \/ \E r \in SampleIds : SampleFail(r) /\ UNCHANGED notExplorer

SpecExplorer == Init /\ [][NextExplorer]_vars

-----------------------------------------------------------------------------
(* App.tsx: the health effect, with its requests in flight                 *)

\* checkApiHealth up to the await: getApiStatus is called.
HealthCheckStart ==
    \E h \in HealthIds :
        /\ healthChecks[h].pc = "unused"
        /\ \A g \in HealthIds : g < h => healthChecks[g].pc # "unused"
        /\ healthChecks' = [healthChecks EXCEPT ![h].pc = "pending"]

\* The effect of the first render: checkApiHealth(), then
\* setInterval(checkApiHealth, 30000).
useEffect_mount ==
    /\ appPhase = "rendered"
    /\ appPhase' = "mounted"
    /\ HealthCheckStart
    /\ pollTimer' = TRUE
    /\ UNCHANGED apiConnected

\* The interval fires, every 30 s while it has not been cleared.
PollTick ==
    /\ pollTimer
    /\ HealthCheckStart
    /\ UNCHANGED <<appPhase, pollTimer, apiConnected>>

\* getApiStatus returns (it never throws): setApiConnected(status.connected).
\* A setter called after the unmount changes nothing.
HealthCheckReturn(h) ==
    /\ healthChecks[h].pc = "pending"
    /\ \E connected \in BOOLEAN :
        /\ healthChecks' = [healthChecks EXCEPT ![h] =
                                [pc |-> "returned", connected |-> connected]]
        /\ apiConnected' = IF appPhase = "mounted" THEN connected ELSE apiConnected
    /\ UNCHANGED <<appPhase, pollTimer>>

\* The cleanup of the effect: clearInterval(interval).
useEffect_cleanup ==
    /\ appPhase = "mounted"
    /\ appPhase' = "unmounted"
    /\ pollTimer' = FALSE
    /\ UNCHANGED <<healthChecks, apiConnected>>

notHealth == <<serverVars, explorerVars, activeTab, predictionData, isLoading, file,
               error, uploadProgress, calls>>

NextHealth ==
    \/ useEffect_mount /\ UNCHANGED notHealth
    \/ PollTick /\ UNCHANGED notHealth
    \/ \E h \in HealthIds : HealthCheckReturn(h) /\ UNCHANGED notHealth
    \/ useEffect_cleanup /\ UNCHANGED notHealth

SpecHealth == Init /\ [][NextHealth]_vars

-----------------------------------------------------------------------------
(* What a request asks for, read off the request alone                     *)

RequestedModel == FormDefault(request.model, DEFAULT_MODEL)
RequestedThreshold == FormDefault(request.threshold, DEFAULT_THRESHOLD)

\* Positions (1-based) of the uploaded rows with and without a usable value.
GoodRows == {i \in 1..Len(request.file_rows) : request.file_rows[i].feat # {}}
BadRows == {i \in 1..Len(request.file_rows) : request.file_rows[i].feat = {}}

\* The i-th smallest element of a set of positions.
RECURSIVE NthOf(_, _)
NthOf(S, i) ==
    LET m == CHOOSE x \in S : \A y \in S : x <= y
    IN IF i = 1 THEN m ELSE NthOf(S \ {m}, i - 1)

\* The identifier a row at position i is traced back by.
RowId(i) ==
    IF request.file_rows[i].kepoi_name # {}
        THEN "K" \o ToString(i - 1)
        ELSE ToString(i - 1)

\* The probability the registered model gives the row at position i.
RowScore(i) ==
    LET x == val(request.file_rows[i].feat)
    IN IF RequestedModel \in _scalers THEN ProbaTable[x + 1] ELSE ProbaTable[x]

Verdicts == response.predictions

-----------------------------------------------------------------------------
(* C1: in every successful response each verdict is labelled PLANET        *)
(* exactly when its probability is at least the threshold the caller       *)
(* asked for (equality is PLANET), and FALSE POSITIVE otherwise.           *)
C1_LabelIffAtLeastThreshold ==
    response.kind = "ok" =>
        \A i \in 1..Len(Verdicts) :
            /\ Verdicts[i].prediction \in {"PLANET", "FALSE POSITIVE"}
            /\ (Verdicts[i].prediction = "PLANET")
                    <=> (Verdicts[i].probability >= RequestedThreshold)

C1_Witness ==
    /\ response.kind = "ok"
    /\ \E i \in 1..Len(Verdicts) :
        /\ Verdicts[i].probability = RequestedThreshold
        /\ Verdicts[i].prediction = "PLANET"
    /\ \E i \in 1..Len(Verdicts) : Verdicts[i].prediction = "FALSE POSITIVE"

(* C2: a request naming a model the registry does not hold is never        *)
(* answered with verdicts; when it reaches the lookup, the lookup fails    *)
(* with the model-not-found error listing exactly the registered ids; and  *)
(* verdicts are always scored with the model that was asked for.           *)
C2_ReachesLookup ==
    /\ request.kind = "predict"
    /\ RequestedThreshold >= 0 /\ RequestedThreshold <= 100
    /\ request.filename = "data.csv"
    /\ GoodRows # {}

C2_UnknownModelRejected ==
    /\ (request.kind = "predict" /\ RequestedModel \notin _models) =>
        /\ response.kind = "error"
        /\ C2_ReachesLookup =>
            /\ response.cause = "ValueError"
            /\ response.msg = "Model not found"
            /\ response.available = _models
    /\ response.kind = "ok" =>
        /\ response.scored_with = RequestedModel
        /\ RequestedModel \in _models

C2_Witness ==
    /\ C2_ReachesLookup
    /\ RequestedModel = "cnn"
    /\ _models = {"xgb"}
    /\ response.kind = "error"
    /\ response.available = {"xgb"}

(* C3: the i-th verdict of a successful response belongs to the i-th valid *)
(* row of the uploaded table: its id, its echoed features, its probability *)
(* and its label are those of that row.                                    *)
C3_OrderPreserved ==
    response.kind = "ok" =>
        /\ Len(Verdicts) = Cardinality(GoodRows)
        /\ \A i \in 1..Len(Verdicts) :
            LET r == NthOf(GoodRows, i)
            IN /\ Verdicts[i].id = RowId(r)
               /\ Verdicts[i].features = val(request.file_rows[r].feat)
               /\ Verdicts[i].probability = RowScore(r)
               /\ (Verdicts[i].prediction = "PLANET")
                    <=> (RowScore(r) >= RequestedThreshold)

C3_Witness ==
    /\ response.kind = "ok"
    /\ Len(Verdicts) >= 2
    /\ Verdicts[1].probability # Verdicts[2].probability
    /\ 1 \in BadRows

(* C5: every FALSE POSITIVE verdict is the verdict of a valid row that was *)
(* scored below the threshold; no row that failed appears among the        *)
(* verdicts; a request that ended in an error carries no verdicts.         *)
C5_NoErrorBecomesFalsePositive ==
    /\ response.kind = "ok" =>
        /\ \A i \in 1..Len(Verdicts) :
            \E r \in GoodRows :
                /\ Verdicts[i].id = RowId(r)
                /\ Verdicts[i].probability = RowScore(r)
                /\ Verdicts[i].prediction = "FALSE POSITIVE"
                        => RowScore(r) < RequestedThreshold
        /\ \A b \in BadRows : \A i \in 1..Len(Verdicts) : Verdicts[i].id # RowId(b)
    /\ response.kind = "error" => "predictions" \notin DOMAIN response

C5_Witness ==
    /\ response.kind = "ok"
    /\ BadRows # {}
    /\ \E i \in 1..Len(Verdicts) : Verdicts[i].prediction = "FALSE POSITIVE"

(* C6: a threshold outside [0, 1] is rejected by field validation, before  *)
(* the handler runs and so before any row is scored; every response with   *)
(* verdicts answers a request whose threshold is in [0, 1].                *)
C6_ThresholdOutOfRangeRejected ==
    request.kind = "predict" =>
        /\ (RequestedThreshold < 0 \/ RequestedThreshold > 100) =>
            /\ response.kind = "error"
            /\ response.status_code = 422
            /\ response.phase = "validation"
        /\ response.kind = "ok" =>
            (RequestedThreshold >= 0 /\ RequestedThreshold <= 100)

C6_Witness ==
    /\ request.kind = "predict"
    /\ RequestedThreshold > 100
    /\ request.filename = "data.csv"
    /\ GoodRows # {}
    /\ RequestedModel \in _models
    /\ response.kind = "error"
    /\ response.status_code = 422

(* C7: in every successful response predicted_planets + false_positives    *)
(* is total_samples, and total_samples is the length of predictions.       *)
C7_SummaryCountsAddUp ==
    response.kind = "ok" =>
        /\ response.summary.predicted_planets + response.summary.false_positives
                = response.total_samples
        /\ response.total_samples = Len(response.predictions)

C7_Witness ==
    /\ response.kind = "ok"
    /\ response.summary.predicted_planets >= 1
    /\ response.summary.false_positives >= 1
    /\ \E i \in 1..Len(Verdicts) :
        /\ Verdicts[i].prediction = "FALSE POSITIVE"
        /\ Verdicts[i].probability >= 50

(* C4: rows that fail adaptation or extraction are excluded without        *)
(* aborting the batch, and counted: a response for R rows of which K       *)
(* failed has total_samples = R - K and reports K excluded rows.           *)
C4_ExcludedRowsCounted ==
    /\ (response.kind = "ok" /\ BadRows # {}) =>
        /\ response.total_samples = Len(request.file_rows) - Cardinality(BadRows)
        /\ "excluded_rows" \in DOMAIN response
        /\ response.excluded_rows = Cardinality(BadRows)
    /\ (C2_ReachesLookup /\ RequestedModel \in _models) => response.kind = "ok"

(* C8: high_confidence_count is the number of verdicts with probability    *)
(* above 0.7, whatever the threshold, and the summary card that shows the  *)
(* count shows it as the number of verdicts above the percentage the card  *)
(* names.                                                                  *)
C8_HighConfidenceSameMeaning ==
    response.kind = "ok" =>
        /\ response.summary.high_confidence_count
            = Cardinality({i \in 1..Len(Verdicts) : Verdicts[i].probability > 70})
        /\ HighConfidenceCard(response).count
            = Cardinality({i \in 1..Len(Verdicts) :
                Verdicts[i].probability > HighConfidenceCard(response).above_percent})

(* C9 as stated: for the probability of any verdict, sweeping the          *)
(* threshold from 0 to 1 changes the label exactly once, from PLANET to    *)
(* FALSE POSITIVE, as the threshold passes the probability.                *)
LabelAt(p, t) == PredictionLabel(y_pred_of(p, t))
LabelChanges(p) == {t \in 0..99 : LabelAt(p, t) # LabelAt(p, t + 1)}

C9_FlipsExactlyOnce ==
    response.kind = "ok" =>
        \A i \in 1..Len(Verdicts) :
            /\ LabelChanges(Verdicts[i].probability) = {Verdicts[i].probability}
            /\ LabelAt(Verdicts[i].probability, 0) = "PLANET"
            /\ LabelAt(Verdicts[i].probability, 100) = "FALSE POSITIVE"

(* C9 amended: the label is PLANET for every threshold up to and including *)
(* the probability and FALSE POSITIVE for every threshold above it, so it  *)
(* changes at most once; it changes exactly once, just above t = p, when   *)
(* p < 1, and never when p = 1.                                            *)
C9_FlipsAtMostOnceAtP ==
    response.kind = "ok" =>
        \A i \in 1..Len(Verdicts) :
            LET p == Verdicts[i].probability
            IN /\ \A t \in 0..100 : (LabelAt(p, t) = "PLANET") <=> (t <= p)
               /\ \A t \in 0..100 :
                    LabelAt(p, t) \in {"PLANET", "FALSE POSITIVE"}
               /\ LabelChanges(p) = IF p < 100 THEN {p} ELSE {}
               /\ Verdicts[i].prediction = LabelAt(p, RequestedThreshold)

C9_Witness ==
    /\ response.kind = "ok"
    /\ \E i \in 1..Len(Verdicts) : Verdicts[i].probability = 100
    /\ \E i \in 1..Len(Verdicts) :
        /\ Verdicts[i].probability = 80
        /\ Verdicts[i].prediction = "FALSE POSITIVE"

BatchOfOne ==
    predict_exoplanets(_models, _scalers,
                       <<[kepoi_name |-> {}, feat |-> {request.feat}]>>,
                       "data.csv", request.model, request.threshold)

-----------------------------------------------------------------------------
(* C12: once the module-level registry has been constructed its three      *)
(* dictionaries never change again, whatever step follows: a further       *)
(* ModelRegistry() construction, a request, or a model file appearing on   *)
(* disk; and a request is only ever served after that construction.        *)
C12_RegistryWrittenOnce ==
    [][/\ _instance => UNCHANGED <<_instance, _models, _scalers, _metadata>>
       /\ request' # request => _instance]_vars

C12_Witness ==
    /\ _instance
    /\ response.kind # "none"
    /\ LoadedModels(disk) # _models
    /\ LoadedScalers(disk) # _scalers

(* C13: a request that names a known model and gets as far as the model    *)
(* lookup never fails there because the model was not loaded: the server   *)
(* only serves requests when every known model is in the registry.         *)
C13_KnownModelNeverMissing ==
    (C2_ReachesLookup /\ RequestedModel \in KnownModels) =>
        /\ KnownModels \subseteq _models
        /\ response.kind = "ok"

(* C14: each request-fatal error reaches the client under its own kind:    *)
(* a non-CSV upload and an upload without usable rows as the 400 they are  *)
(* raised with, an unknown model as the documented 404.                    *)
C14_ThresholdAccepted ==
    /\ request.kind = "predict"
    /\ ThresholdValid(RequestedThreshold)

C14_FatalErrorsKeepTheirKind ==
    C14_ThresholdAccepted =>
        /\ request.filename # "data.csv" =>
            /\ response.kind = "error"
            /\ response.status_code = 400
        /\ (request.filename = "data.csv" /\ GoodRows = {}) =>
            /\ response.kind = "error"
            /\ response.status_code = 400
        /\ (request.filename = "data.csv" /\ GoodRows # {}
                /\ RequestedModel \notin _models) =>
            /\ response.kind = "error"
            /\ response.status_code = 404

(* C15: a table whose rows are all invalid is rejected with an error that  *)
(* differs from the one the empty table gets under the same model and      *)
(* threshold, and no answer is a success with total_samples = 0.           *)
EmptyTableResponse ==
    predict_exoplanets(_models, _scalers, <<>>, request.filename,
                       request.model, request.threshold)

C15_EmptyAndNoValidDistinct ==
    /\ (C14_ThresholdAccepted /\ request.filename = "data.csv"
            /\ Len(request.file_rows) > 0 /\ GoodRows = {}) =>
        /\ response.kind = "error"
        /\ EmptyTableResponse.kind = "error"
        /\ response # EmptyTableResponse
    /\ response.kind = "ok" => response.total_samples > 0

(* C16: whenever the request that was answered before is answered again,   *)
(* after any other requests in between, the answer is the one it got the   *)
(* first time: same verdicts, same summary, same error.                    *)
C16_SameRequestSameAnswer ==
    (probe.seen /\ request = ProbeRequest /\ response.kind # "none") =>
        response = probe.response

C16_Witness ==
    /\ probe.seen
    /\ probe.others
    /\ request = ProbeRequest
    /\ response.kind = "ok"
    /\ disk.scaler_pkl
    /\ "xgb" \notin _scalers

(* C17: whatever other requests are in the server and however their steps  *)
(* interleave, the answer a request gets is the answer a server started    *)
(* from the same model files gives to that request on its own.             *)
Alone(rq) ==
    predict_exoplanets(LoadedModels(disk), LoadedScalers(disk), rq.file_rows,
                       rq.filename, rq.model, rq.threshold)

C17_AnswerAsIfAlone ==
    \A i \in Slots :
        inflight[i].pc = "answered" => inflight[i].response = Alone(inflight[i].request)

C17_Witness ==
    /\ inflight[1].pc = "answered"
    /\ inflight[2].pc = "answered"
    /\ inflight[1].response.kind = "ok"
    /\ inflight[2].response.kind = "error"
    /\ inflight[2].request.model = {"cnn"}
    /\ inflight[1].request.file_rows = inflight[2].request.file_rows

(* C18: a model that has a fitted scaler is not a pass-through model, so   *)
(* every verdict scored with it carries the probability of its scaled      *)
(* features; only a model without a scaler file is scored unscaled.        *)
C18_ScalerAlwaysApplied ==
    (request.kind = "predict" /\ response.kind = "ok") =>
        \A k \in 1..Len(Verdicts) :
            Verdicts[k].probability =
                IF response.scored_with \in ScaledModels
                    THEN predict_proba(response.scored_with, transform(Verdicts[k].features))
                    ELSE predict_proba(response.scored_with, Verdicts[k].features)

(* C19: a batch request that leaves out the model is scored with "xgb"     *)
(* and one that leaves out the threshold is labelled against 0.5; in       *)
(* every successful response model_used is the model that scored the rows  *)
(* and threshold is the value the labels were taken against, and both      *)
(* are the caller's own values whenever the caller gave them.              *)
C19_DefaultsAppliedAndReported ==
    request.kind = "predict" =>
        /\ (C2_ReachesLookup /\ request.model = {} /\ "xgb" \in _models) =>
            response.kind = "ok"
        /\ response.kind = "ok" =>
            /\ request.model = {} => response.model_used = "xgb"
            /\ request.threshold = {} => response.threshold = 50
            /\ \A m \in request.model : response.model_used = m
            /\ \A t \in request.threshold : response.threshold = t
            /\ response.scored_with = response.model_used
            /\ \A k \in 1..Len(Verdicts) :
                Verdicts[k].prediction = "PLANET"
                    <=> Verdicts[k].probability >= response.threshold

C19_Witness ==
    /\ request.kind = "predict"
    /\ request.model = {}
    /\ request.threshold = {}
    /\ response.kind = "ok"
    /\ \E k \in 1..Len(Verdicts) :
        Verdicts[k].probability = 50 /\ Verdicts[k].prediction = "PLANET"
    /\ response.model_used = "xgb"
    /\ response.threshold = 50

(* C20: a step that starts a prediction request is taken only with a file  *)
(* selected and the API connected; a press of the Predict button while     *)
(* the API is not connected shows the not-connected error and changes      *)
(* neither isLoading nor uploadProgress, and sends nothing.                *)
RequestSent ==
    \E c \in CallIds : calls[c].pc = "unused" /\ calls'[c].pc # "unused"

C20_NoRequestWithoutFileOrApi ==
    [][/\ RequestSent => (file # {} /\ apiConnected)
       /\ (PredictButton /\ ~apiConnected) =>
            /\ error' = {NOT_CONNECTED}
            /\ ~RequestSent
            /\ UNCHANGED <<isLoading, uploadProgress, calls>>]_vars

C20_Witness ==
    /\ error = {NOT_CONNECTED}
    /\ file # {}
    /\ ~apiConnected
    /\ ~isLoading
    /\ uploadProgress > 0
    /\ \E c \in CallIds : calls[c].pc = "rejected"

(* C21: onPredictionComplete runs for a call only after that call's        *)
(* request resolved, only once, and the step that runs it leaves the       *)
(* call's response as predictionData with the results tab showing; every   *)
(* resolved call does get it; a request that rejects changes neither       *)
(* predictionData nor the tab and never gets onPredictionComplete.         *)
C21_CompletionSteps ==
    \A c \in CallIds :
        /\ calls'[c].completions # calls[c].completions =>
            /\ calls[c].pc = "resolved"
            /\ calls[c].completions = 0
            /\ calls'[c].completions = 1
            /\ predictionData' = {c}
            /\ activeTab' = "results"
        /\ (calls[c].pc = "pending" /\ calls'[c].pc = "rejected") =>
            UNCHANGED <<predictionData, activeTab>>
        /\ calls[c].pc = "rejected" =>
            /\ calls'[c].completions = 0
            /\ ~calls'[c].completeTimer

C21_CompleteExactlyOnce ==
    /\ [][C21_CompletionSteps]_vars
    /\ \A c \in CallIds : (calls[c].pc = "resolved") ~> (calls[c].completions = 1)

C21_Witness ==
    /\ calls[1].pc = "rejected"
    /\ calls[2].pc = "resolved"
    /\ calls[2].completions = 1
    /\ predictionData = {2}
    /\ activeTab = "results"

(* C22: whenever the results tab is the active tab there is prediction     *)
(* data to show; and once predictionData is set no step makes it null      *)
(* again.                                                                  *)
C22_ResultsTabHasData ==
    /\ [](activeTab = "results" => predictionData # {})
    /\ [][predictionData # {} => predictionData' # {}]_vars

C22_Witness ==
    /\ activeTab = "results"
    /\ predictionData = {1}
    /\ calls[1].completions = 1
    /\ calls[2].pc = "rejected"

(* C23: never more than one prediction request is waiting for its answer;  *)
(* a request is started only from a state where isLoading is false, the    *)
(* start makes it true, and it stays true for as long as the request has   *)
(* not settled and on until that request's own timer resets it.            *)
Pending == {c \in CallIds : calls[c].pc = "pending"}

C23_OneRequestInFlight ==
    /\ [](Cardinality(Pending) <= 1)
    /\ [](\A c \in CallIds :
            (calls[c].pc = "pending" \/ calls[c].loadingTimer) => isLoading)
    /\ [][RequestSent => (~isLoading /\ isLoading')]_vars

C23_Witness ==
    /\ calls[1].pc = "rejected"
    /\ ~calls[1].loadingTimer
    /\ calls[2].pc = "pending"
    /\ isLoading

(* C24: a request that has settled, by resolving or by rejecting, is       *)
(* always followed by a state where its timer has run and isLoading is     *)
(* false, also when FileUpload was unmounted in between.                   *)
C24_LoadingEventuallyReset ==
    \A c \in CallIds :
        (calls[c].pc \in {"resolved", "rejected"} /\ calls[c].loadingTimer)
            ~> (~calls[c].loadingTimer /\ ~isLoading)

C24_Witness ==
    /\ calls[1].pc = "rejected"
    /\ calls[2].pc = "resolved"
    /\ ~calls[1].loadingTimer
    /\ ~calls[2].loadingTimer
    /\ ~calls[2].mounted
    /\ ~isLoading

(* C25: once a request has settled its progress timer is no longer         *)
(* running, and while no later request is waiting uploadProgress rests     *)
(* at 0 after a failure and at 100 after a success.                        *)
C25_ProgressTimerCancelled ==
    \A c \in CallIds :
        calls[c].pc \in {"resolved", "rejected"} =>
            /\ ~calls[c].interval
            /\ (calls[c].mounted /\ Pending = {}) =>
                uploadProgress = IF calls[c].pc = "rejected" THEN 0 ELSE 100

(* C26: when every sample-data request has returned with success and the   *)
(* data is on display, the data on display is that of the dataset which    *)
(* is selected.                                                            *)
SampleSettled ==
    /\ \A r \in SampleIds : sampleRequests[r].pc \in {"unused", "resolved"}
    /\ \E r \in SampleIds : sampleRequests[r].pc = "resolved"

C26_SampleOfSelectedDataset ==
    (SampleSettled /\ ~loading /\ explorerError = {}) =>
        sampleData.dataset = selectedDataset

(* C27: the request that a change of the sample size sends asks for the    *)
(* size just chosen: the newest request always carries the sample limit    *)
(* the select shows.                                                       *)
NewestRequest ==
    CHOOSE r \in SampleIds :
        /\ sampleRequests[r].pc # "unused"
        /\ \A q \in SampleIds : q > r => sampleRequests[q].pc = "unused"

C27_ReloadAsksChosenLimit ==
    (\E r \in SampleIds : sampleRequests[r].pc # "unused") =>
        sampleRequests[NewestRequest].limit = sampleLimit

(* C28: health checks are issued only while the poll of a mounted App is   *)
(* running, and while App is mounted apiConnected is the result of the     *)
(* check that was issued last among those that have returned.              *)
Returned == {h \in HealthIds : healthChecks[h].pc = "returned"}
LastReturned == CHOOSE h \in Returned : \A g \in Returned : g <= h

C28_LatestHealthCheckWins ==
    /\ pollTimer => appPhase = "mounted"
    /\ (appPhase = "mounted" /\ Returned # {}) =>
        apiConnected = healthChecks[LastReturned].connected

=============================================================================
